---------------------------- MODULE Spec2Model ----------------------------
(***************************************************************************)
(* Model of functions.py: the column-level cleaning functions of the       *)
(* tabular-data pipeline and the orchestrator clean_and_format_data.       *)
(*                                                                         *)
(* A Python str is a sequence of one-character strings.  A cell of a table *)
(* is a record: a str, NaN (missing) or an integer.  A DataFrame is a      *)
(* record of column labels, column dtypes, index labels and rows; frames   *)
(* live in a heap of objects so that copy() and in-place assignment can be *)
(* told apart.                                                             *)
(***************************************************************************)
EXTENDS Integers, Sequences, FiniteSets, TLC

VARIABLES heap, pc, call, cfg, df1, todo, ret, input, log

vars == <<heap, pc, call, cfg, df1, todo, ret, input, log>>

(***************************************************************************)
(* Bounds of the enumerated inputs.                                        *)
(***************************************************************************)
MaxColsFormat == 3
MaxRowsGender == 3
MaxRowsDedup == 3
MaxRowsReplace == 2
MaxPairs == 2
MaxRowsPipe == 3

(***************************************************************************)
(* Characters and strings.                                                 *)
(***************************************************************************)
Uppers == <<"A","B","C","D","E","F","G","H","I","J","K","L","M",
            "N","O","P","Q","R","S","T","U","V","W","X","Y","Z">>

Lowers == <<"a","b","c","d","e","f","g","h","i","j","k","l","m",
            "n","o","p","q","r","s","t","u","v","w","x","y","z">>

Digits == <<"0","1","2","3","4","5","6","7","8","9">>

IndexIn(seq, c) == IF \E i \in 1..Len(seq) : seq[i] = c
                   THEN CHOOSE i \in 1..Len(seq) : seq[i] = c
                   ELSE 0

\* str.lower() and str.upper() on one character
LowerChar(c) == IF IndexIn(Uppers, c) > 0 THEN Lowers[IndexIn(Uppers, c)] ELSE c

UpperChar(c) == IF IndexIn(Lowers, c) > 0 THEN Uppers[IndexIn(Lowers, c)] ELSE c

\* code point of a character, the order Python compares str by
Code(c) == IF IndexIn(Uppers, c) > 0 THEN 64 + IndexIn(Uppers, c)
           ELSE IF IndexIn(Lowers, c) > 0 THEN 96 + IndexIn(Lowers, c)
           ELSE IF IndexIn(Digits, c) > 0 THEN 47 + IndexIn(Digits, c)
           ELSE IF c = " " THEN 32
           ELSE IF c = "%" THEN 37
           ELSE IF c = "-" THEN 45
           ELSE IF c = "/" THEN 47
           ELSE IF c = "_" THEN 95
           ELSE 127

RECURSIVE StrLess(_, _)
StrLess(a, b) ==
    IF b = <<>> THEN FALSE
    ELSE IF a = <<>> THEN TRUE
    ELSE IF Code(Head(a)) # Code(Head(b)) THEN Code(Head(a)) < Code(Head(b))
    ELSE StrLess(Tail(a), Tail(b))

StartsWith(s, p) == Len(p) <= Len(s) /\ SubSeq(s, 1, Len(p)) = p

Drop(s, n) == SubSeq(s, n + 1, Len(s))

\* str.replace(old, new) for a non-empty old: leftmost, non-overlapping, all
RECURSIVE ReplaceScan(_, _, _)
ReplaceScan(s, old, new) ==
    IF s = <<>> THEN <<>>
    ELSE IF StartsWith(s, old) THEN new \o ReplaceScan(Drop(s, Len(old)), old, new)
    ELSE <<Head(s)>> \o ReplaceScan(Tail(s), old, new)

\* str.replace('', new): new before every character and at the end
RECURSIVE ReplaceEmpty(_, _)
ReplaceEmpty(s, new) ==
    IF s = <<>> THEN new ELSE new \o <<Head(s)>> \o ReplaceEmpty(Tail(s), new)

StrReplace(s, old, new) ==
    IF old = <<>> THEN ReplaceEmpty(s, new) ELSE ReplaceScan(s, old, new)

\* str.split('/'): the segments between the slashes
RECURSIVE SplitFrom(_, _)
SplitFrom(s, cur) ==
    IF s = <<>> THEN <<cur>>
    ELSE IF Head(s) = "/" THEN <<cur>> \o SplitFrom(Tail(s), <<>>)
    ELSE SplitFrom(Tail(s), Append(cur, Head(s)))

Split(s) == SplitFrom(s, <<>>)

HasSlash(s) == \E i \in 1..Len(s) : s[i] = "/"

IsDigits(s) == s # <<>> /\ \A i \in 1..Len(s) : IndexIn(Digits, s[i]) > 0

\* int(s) of a digit string
RECURSIVE ParseInt(_)
ParseInt(s) ==
    IF s = <<>> THEN 0
    ELSE 10 * ParseInt(SubSeq(s, 1, Len(s) - 1)) + (IndexIn(Digits, s[Len(s)]) - 1)

\* str(n) of a non-negative integer
RECURSIVE FormatInt(_)
FormatInt(n) ==
    IF n < 10 THEN <<Digits[n + 1]>>
    ELSE FormatInt(n \div 10) \o <<Digits[(n % 10) + 1]>>

(***************************************************************************)
(* Cells and frames.                                                       *)
(***************************************************************************)
Str(s) == [k |-> "str", s |-> s, n |-> 0]

NaN == [k |-> "nan", s |-> <<>>, n |-> 0]

Num(n) == [k |-> "num", s |-> <<>>, n |-> n]

IsStr(x) == x.k = "str"

Frame(columns, dtypes, index, rows) ==
    [columns |-> columns, dtypes |-> dtypes, index |-> index, rows |-> rows]

NRows(df) == Len(df.rows)

NCols(df) == Len(df.columns)

\* positions of the columns labelled key
Locs(df, key) == {j \in 1..NCols(df) : df.columns[j] = key}

Loc(df, key) == CHOOSE j \in Locs(df, key) : TRUE

\* df[key] of a uniquely labelled column, as the list of its values
Column(df, key) == [i \in 1..NRows(df) |-> df.rows[i][Loc(df, key)]]

\* dtype pandas infers for a list assigned to a column
InferDtype(values, emptyDtype) ==
    IF values = <<>> THEN emptyDtype
    ELSE IF \A i \in 1..Len(values) : values[i].k = "nan" THEN "float64"
    ELSE IF \A i \in 1..Len(values) : values[i].k = "num" THEN "int64"
    ELSE "object"

\* variant: the assignment adds a column instead of overwriting the one labelled key
SetColumnInsert(df, key, values, dtype) ==
    [df EXCEPT !.columns = Append(df.columns, key),
               !.rows = [i \in 1..NRows(df) |-> Append(df.rows[i], values[i])],
               !.dtypes = Append(df.dtypes, dtype)]

\* df[key] = values for a uniquely labelled column
SetColumn(df, key, values, dtype) ==
    [df EXCEPT !.rows = [i \in 1..NRows(df) |->
                            [df.rows[i] EXCEPT ![Loc(df, key)] = values[i]]],
               !.dtypes = [df.dtypes EXCEPT ![Loc(df, key)] = dtype]]

Ok(df) == [raised |-> FALSE, df |-> df]

Raise(df) == [raised |-> TRUE, df |-> df]

gender == <<"g","e","n","d","e","r">>

number_of_open_complaints ==
    <<"n","u","m","b","e","r","_","o","f","_","o","p","e","n","_",
      "c","o","m","p","l","a","i","n","t","s">>

(***************************************************************************)
(* format_columns                                                          *)
(***************************************************************************)
LowerStr(s) == [i \in 1..Len(s) |-> LowerChar(s[i])]

\* col.lower().replace(' ', '_')
FormatName(col) == StrReplace(LowerStr(col), <<" ">>, <<"_">>)

\* a dict is the sequence of its (key, value) items, keys distinct
HasKey(dict, key) == \E i \in 1..Len(dict) : dict[i][1] = key

Get(dict, key) == dict[CHOOSE i \in 1..Len(dict) : dict[i][1] = key][2]

\* DataFrame.rename(columns = dict): one label at a time, absent keys ignored
RenameName(name, column_renames) ==
    IF HasKey(column_renames, name) THEN Get(column_renames, name) ELSE name

\* variant: the rename is applied to the labels before they are formatted
format_columns_rename_first(df, column_renames) ==
    Ok([df EXCEPT !.columns =
          [j \in 1..NCols(df) |-> FormatName(RenameName(df.columns[j], column_renames))]])

format_columns(df, column_renames) ==
    Ok([df EXCEPT !.columns =
          [j \in 1..NCols(df) |-> RenameName(FormatName(df.columns[j]), column_renames)]])

(***************************************************************************)
(* clean_gender_column                                                     *)
(***************************************************************************)
Count(col, v) == Cardinality({i \in 1..Len(col) : col[i] = v})

\* Series.mode(): the non-missing values of highest count, sorted
Modes(col) ==
    LET present == {col[i] : i \in {h \in 1..Len(col) : col[h].k # "nan"}}
    IN  {v \in present : \A w \in present : Count(col, w) <= Count(col, v)}

\* Series.mode()[0]; the caller checks Modes(col) # {}
Mode0(col) == CHOOSE v \in Modes(col) : \A w \in Modes(col) \ {v} : StrLess(v.s, w.s)

\* x[0].upper() in ['M', 'F'] for a str x; the caller checks x.s # <<>>
IsMF(x) == UpperChar(x.s[1]) \in {"M", "F"}

\* one element of the comprehension may raise: x[0] of '' or mode()[0] of no mode
GenderRaises(x, col) ==
    IF IsStr(x) THEN x.s = <<>> \/ (~IsMF(x) /\ Modes(col) = {})
    ELSE Modes(col) = {}

\* variant: the mode is taken from the column with the valid entries already replaced
GenderItemRunningMode(x, col) ==
    IF IsStr(x) /\ IsMF(x) THEN Str(<<UpperChar(x.s[1])>>)
    ELSE Mode0([i \in 1..Len(col) |->
                  IF IsStr(col[i]) /\ col[i].s # <<>> /\ IsMF(col[i])
                  THEN Str(<<UpperChar(col[i].s[1])>>) ELSE col[i]])

\* one element of the comprehension; col is df1['gender'] as read for this element
GenderItem(x, col) ==
    IF IsStr(x) /\ IsMF(x) THEN Str(<<UpperChar(x.s[1])>>) ELSE Mode0(col)

clean_gender_column(df, emptyDtype) ==
    IF Cardinality(Locs(df, gender)) # 1 THEN Raise(df)
    ELSE LET col == Column(df, gender)
         IN  IF \E i \in 1..Len(col) : GenderRaises(col[i], Column(df, gender))
             THEN Raise(df)
             ELSE LET values == [i \in 1..Len(col) |->
                                    GenderItem(col[i], Column(df, gender))]
                  IN  Ok(SetColumn(df, gender, values, InferDtype(values, emptyDtype)))

(***************************************************************************)
(* clean_number_of_complains_column                                        *)
(***************************************************************************)
ComplaintItem(x) ==
    IF IsStr(x) /\ HasSlash(x.s) THEN Str(Split(x.s)[2]) ELSE x

clean_number_of_complains_column(df, emptyDtype) ==
    LET n == Cardinality(Locs(df, number_of_open_complaints))
    IN  IF n = 0 THEN Raise(df)
        ELSE IF n = 1
        THEN LET col == Column(df, number_of_open_complaints)
                 values == [i \in 1..Len(col) |-> ComplaintItem(col[i])]
             IN  Ok(SetColumn(df, number_of_open_complaints, values,
                              InferDtype(values, emptyDtype)))
        \* a repeated label: the comprehension walks the labels of the sub-frame
        \* and the list must be as long as the index
        ELSE IF n # NRows(df) THEN Raise(df)
        ELSE Ok([df EXCEPT
                   !.rows = [i \in 1..NRows(df) |-> [j \in 1..NCols(df) |->
                               IF j \in Locs(df, number_of_open_complaints)
                               THEN Str(number_of_open_complaints)
                               ELSE df.rows[i][j]]],
                   !.dtypes = [j \in 1..NCols(df) |->
                               IF j \in Locs(df, number_of_open_complaints)
                               THEN "object" ELSE df.dtypes[j]]])

(***************************************************************************)
(* clean_column_by_replacing_string                                        *)
(***************************************************************************)
\* Series.str.replace(old, new) on one value: a non-str value becomes NaN
ReplaceItem(x, item) ==
    IF IsStr(x) THEN Str(StrReplace(x.s, item[1], item[2])) ELSE NaN

\* the .str accessor exists only on a single column holding text
HasStrAccessor(df, column) ==
    /\ Cardinality(Locs(df, column)) = 1
    /\ df.dtypes[Loc(df, column)] = "object"
    /\ \A i \in 1..NRows(df) : Column(df, column)[i].k # "num"

ReplaceOnce(df, column, item) ==
    SetColumn(df, column,
              [i \in 1..NRows(df) |-> ReplaceItem(Column(df, column)[i], item)],
              "object")

\* variant: the pairs are applied last to first
RECURSIVE ReplaceLoopReversed(_, _, _)
ReplaceLoopReversed(df, column, replacements) ==
    IF replacements = <<>> THEN Ok(df)
    ELSE IF ~HasStrAccessor(df, column) THEN Raise(df)
    ELSE ReplaceLoopReversed(
             ReplaceOnce(df, column, replacements[Len(replacements)]),
             column, SubSeq(replacements, 1, Len(replacements) - 1))

\* the loop "for item in replacements"
RECURSIVE ReplaceLoop(_, _, _)
ReplaceLoop(df, column, replacements) ==
    IF replacements = <<>> THEN Ok(df)
    ELSE IF ~HasStrAccessor(df, column) THEN Raise(df)
    ELSE ReplaceLoop(ReplaceOnce(df, column, Head(replacements)),
                     column, Tail(replacements))

clean_column_by_replacing_string(df, column, replacements) ==
    ReplaceLoop(df, column, replacements)

(***************************************************************************)
(* reassign_column_data_type                                               *)
(***************************************************************************)
CastRaises(x, type) ==
    type = "int" /\ (x.k = "nan" \/ (x.k = "str" /\ ~IsDigits(x.s)))

\* Series.astype(type) on one value
Cast(x, type) ==
    IF type = "int"
    THEN (IF x.k = "str" THEN Num(ParseInt(x.s)) ELSE x)
    ELSE (IF x.k = "num" THEN Str(FormatInt(x.n))
          ELSE IF x.k = "nan" THEN Str(<<"n","a","n">>)
          ELSE x)

CastDtype(type) == IF type = "int" THEN "int64" ELSE "object"

AstypeRaises(df, key, type) ==
    \/ Locs(df, key) = {}
    \/ \E i \in 1..NRows(df) : \E j \in Locs(df, key) : CastRaises(df.rows[i][j], type)

\* df[key] = df[key].astype(type)
Astype(df, key, type) ==
    [df EXCEPT !.rows = [i \in 1..NRows(df) |-> [j \in 1..NCols(df) |->
                           IF j \in Locs(df, key) THEN Cast(df.rows[i][j], type)
                           ELSE df.rows[i][j]]],
               !.dtypes = [j \in 1..NCols(df) |->
                           IF j \in Locs(df, key) THEN CastDtype(type)
                           ELSE df.dtypes[j]]]

\* the loop "for key, value in columns.items()"; df is the frame passed in,
\* assigned to in place, so the frame at a raise keeps the earlier casts
RECURSIVE reassign_column_data_type(_, _)
reassign_column_data_type(df, columns) ==
    IF columns = <<>> THEN Ok(df)
    ELSE IF AstypeRaises(df, Head(columns)[1], Head(columns)[2]) THEN Raise(df)
    ELSE reassign_column_data_type(Astype(df, Head(columns)[1], Head(columns)[2]),
                                   Tail(columns))

(***************************************************************************)
(* remove_duplicate_and_empty_rows                                         *)
(***************************************************************************)
\* variant: the kept rows come out in reverse order
RECURSIVE TakeRowsReversed(_, _, _)
TakeRowsReversed(df, keep, i) ==
    IF i > NRows(df) THEN [df EXCEPT !.rows = <<>>, !.index = <<>>]
    ELSE LET rest == TakeRowsReversed(df, keep, i + 1)
         IN  IF i \in keep
             THEN [rest EXCEPT !.rows = rest.rows \o <<df.rows[i]>>,
                               !.index = rest.index \o <<df.index[i]>>]
             ELSE rest

\* the rows at the positions in keep, in their order, with their index labels
RECURSIVE TakeRows(_, _, _)
TakeRows(df, keep, i) ==
    IF i > NRows(df) THEN [df EXCEPT !.rows = <<>>, !.index = <<>>]
    ELSE LET rest == TakeRows(df, keep, i + 1)
         IN  IF i \in keep
             THEN [rest EXCEPT !.rows = <<df.rows[i]>> \o rest.rows,
                               !.index = <<df.index[i]>> \o rest.index]
             ELSE rest

\* variant: the first occurrences come back in another order than they came in
drop_duplicates_unordered(df) ==
    TakeRowsReversed(df, {i \in 1..NRows(df) : \A h \in 1..(i - 1) : df.rows[h] # df.rows[i]}, 1)

\* DataFrame.drop_duplicates(): keep = 'first'
drop_duplicates(df) ==
    TakeRows(df, {i \in 1..NRows(df) : \A h \in 1..(i - 1) : df.rows[h] # df.rows[i]}, 1)

\* DataFrame.dropna(): how = 'any', a row goes when any of its values is missing
dropna(df) ==
    TakeRows(df, {i \in 1..NRows(df) : \A j \in 1..NCols(df) : df.rows[i][j].k # "nan"}, 1)

remove_duplicate_and_empty_rows(df) == Ok(dropna(drop_duplicates(df)))

(***************************************************************************)
(* Enumerated inputs.                                                      *)
(***************************************************************************)
SeqsUpTo(S, n) == UNION {[1..k -> S] : k \in 0..n}

Distinct(seq) == \A i, j \in 1..Len(seq) : i # j => seq[i] # seq[j]

Objects(n) == [j \in 1..n |-> "object"]

\* the default RangeIndex 0..n-1
RangeIndex(n) == [i \in 1..n |-> i - 1]

\* dtype of an empty list assigned to a column: it differs between pandas releases
EmptyDtypes == {"object", "float64"}

Config(renames, replace, types) ==
    [column_renames |-> renames, cols_to_replace |-> replace,
     cols_to_reassign_datatype |-> types]

NoConfig == Config(<<>>, <<>>, <<>>)

st == <<"s","t">>

s_t == <<"s","_","t">>

state == <<"s","t","a","t","e">>

FormatNames == {<<"S","T">>, st, <<"S"," ","T">>, s_t, <<"G","e","n","d","e","r">>}

RenameSet == {<<>>,
              <<<<st, <<"S","t","a","t","e">>>>>>,
              <<<<st, s_t>>>>,
              <<<<s_t, st>>, <<st, s_t>>>>,
              <<<<<<"z","z">>, <<"q">>>>>>,
              <<<<<<"S","T">>, <<"q">>>>>>}

FormatFrames ==
    {Frame(cols, Objects(Len(cols)), <<0>>, <<[j \in 1..Len(cols) |-> Str(<<"x">>)]>>) :
        cols \in {c \in SeqsUpTo(FormatNames, MaxColsFormat) : c # <<>> /\ Distinct(c)}}

GenderVals == {Str(<<"M">>), Str(<<"f">>), Str(<<"f","e","m","a","l","e">>),
               Str(<<"M","a","l","e">>), Str(<<"x","x">>), Str(<<>>), NaN}

GenderFrames ==
    {Frame(<<st, gender>>, Objects(2), RangeIndex(Len(col)),
           [i \in 1..Len(col) |-> <<Str(<<"x">>), col[i]>>]) :
        col \in SeqsUpTo(GenderVals, MaxRowsGender)}

DedupVals == {Str(<<"A">>), Str(<<"B">>), NaN}

DedupFrames ==
    {Frame(<<<<"a">>, <<"b">>>>, Objects(2), RangeIndex(Len(rows)), rows) :
        rows \in SeqsUpTo([1..2 -> DedupVals], MaxRowsDedup)}

ReplaceVals == {Str(<<"a","b","c","1","2","3">>), Str(<<"x","y","z">>),
                Str(<<"a","a","a">>), NaN}

PairSet == {<<<<"1","2","3">>, <<>>>>, <<<<"a">>, <<"A">>>>, <<<<"A">>, <<"b">>>>,
            <<<<"a","a">>, <<"a">>>>, <<<<>>, <<"-">>>>}

ReplaceFrames ==
    {Frame(<<<<"c">>, <<"d">>>>, Objects(2), RangeIndex(Len(col)),
           [i \in 1..Len(col) |-> <<col[i], Str(<<"a","1">>)>>]) :
        col \in SeqsUpTo(ReplaceVals, MaxRowsReplace)}

ReplaceConfigs ==
    {Config(<<>>, <<<<<<"c">>, pairs>>>>, <<>>) : pairs \in SeqsUpTo(PairSet, MaxPairs)}

PipeLayouts ==
    {<<gender, number_of_open_complaints, st>>,
     <<<<"G","e","n","d","e","r">>,
       <<"N","u","m","b","e","r"," ","o","f"," ","O","p","e","n"," ",
         "C","o","m","p","l","a","i","n","t","s">>,
       <<"S","T">>>>,
     <<<<"S","T">>, number_of_open_complaints, st>>}

PipeRowVals ==
    {<<g, c, Str(<<"a","%">>)>> :
        g \in {Str(<<"M">>), Str(<<"f","e","m","a","l","e">>), NaN},
        c \in {Str(<<"1","/","5","/","0","0">>), Str(<<"0">>)}}

PipeFrames ==
    {Frame(cols, Objects(3), RangeIndex(Len(rows)), rows) :
        cols \in PipeLayouts, rows \in SeqsUpTo(PipeRowVals, MaxRowsPipe)}

PercentOff == <<<<<<"%">>, <<>>>>>>

PipeConfigs ==
    {NoConfig,
     Config(<<<<st, state>>>>, <<<<state, PercentOff>>>>,
            <<<<number_of_open_complaints, "int">>, <<state, "int">>>>),
     Config(<<<<st, state>>>>,
            <<<<state, PercentOff>>, <<number_of_open_complaints, <<<<<<"0">>, <<"1">>>>>>>>>>,
            <<<<number_of_open_complaints, "int">>>>),
     Config(<<>>, <<<<st, PercentOff>>>>, <<<<gender, "str">>>>),
     Config(<<<<st, gender>>>>, <<>>, <<>>),
     Config(<<>>, <<<<number_of_open_complaints, PercentOff>>>>,
            <<<<number_of_open_complaints, "str">>, <<st, "str">>>>)}

InitWith(frames, configs) ==
    /\ \E f \in frames : heap = <<f>> /\ input = f
    /\ cfg \in configs
    /\ pc = "idle"
    /\ call = "none"
    /\ df1 = 0
    /\ todo = <<>>
    /\ ret = 0
    /\ log = <<>>

Init == InitWith(PipeFrames, PipeConfigs)

InitFormat == InitWith(FormatFrames, {Config(r, <<>>, <<>>) : r \in RenameSet})

InitGender == InitWith(GenderFrames, {NoConfig})

InitDedup == InitWith(DedupFrames, {NoConfig})

InitReplace == InitWith(ReplaceFrames, ReplaceConfigs)

(***************************************************************************)
(* A caller applies one function to its frame, heap[1].                    *)
(***************************************************************************)
\* a function that works on df.copy(): the result is a new object
ReturnCopy(name, r) ==
    /\ call' = name
    /\ IF r.raised
       THEN pc' = "raised" /\ heap' = heap /\ ret' = 0
       ELSE pc' = "done" /\ heap' = Append(heap, r.df) /\ ret' = Len(heap) + 1
    /\ UNCHANGED <<cfg, df1, todo, input, log>>

CallFormatColumns ==
    /\ pc = "idle"
    /\ ReturnCopy("format_columns", format_columns(heap[1], cfg.column_renames))

CallRemoveDuplicateAndEmptyRows ==
    /\ pc = "idle"
    /\ ReturnCopy("remove_duplicate_and_empty_rows",
                  remove_duplicate_and_empty_rows(heap[1]))

CallCleanGenderColumn ==
    /\ pc = "idle"
    /\ \E e \in EmptyDtypes :
        ReturnCopy("clean_gender_column", clean_gender_column(heap[1], e))

CallCleanNumberOfComplainsColumn ==
    /\ pc = "idle"
    /\ \E e \in EmptyDtypes :
        ReturnCopy("clean_number_of_complains_column",
                   clean_number_of_complains_column(heap[1], e))

CallCleanColumnByReplacingString ==
    /\ pc = "idle"
    /\ \E i \in 1..Len(cfg.cols_to_replace) :
        ReturnCopy("clean_column_by_replacing_string",
                   clean_column_by_replacing_string(heap[1], cfg.cols_to_replace[i][1],
                                                    cfg.cols_to_replace[i][2]))

\* no copy: the casts are assigned into the caller's frame, which is returned
CallReassignColumnDataType ==
    /\ pc = "idle"
    /\ call' = "reassign_column_data_type"
    /\ LET r == reassign_column_data_type(heap[1], cfg.cols_to_reassign_datatype)
       IN  /\ heap' = [heap EXCEPT ![1] = r.df]
           /\ IF r.raised THEN pc' = "raised" /\ ret' = 0 ELSE pc' = "done" /\ ret' = 1
    /\ UNCHANGED <<cfg, df1, todo, input, log>>

(***************************************************************************)
(* clean_and_format_data, one action per statement.                        *)
(***************************************************************************)
\* a stage that returns a copy: df1 = stage(df1, ...)
Entry(name, arg, in, out, before, after) ==
    [stage |-> name, arg |-> arg, in |-> in, out |-> out,
     index_in |-> before.index, index_out |-> after.index]

Stage(name, arg, r, next) ==
    /\ IF r.raised
       THEN /\ pc' = "raised"
            /\ log' = Append(log, Entry(name, arg, df1, 0, heap[df1], heap[df1]))
            /\ UNCHANGED <<heap, df1>>
       ELSE /\ pc' = next
            /\ heap' = Append(heap, r.df)
            /\ df1' = Len(heap) + 1
            /\ log' = Append(log, Entry(name, arg, df1, Len(heap) + 1, heap[df1], r.df))
    /\ UNCHANGED <<call, cfg, ret, input>>

\* df1 = df.copy()
PipeCopy ==
    /\ pc = "idle"
    /\ call' = "clean_and_format_data"
    /\ heap' = Append(heap, heap[1])
    /\ df1' = Len(heap) + 1
    /\ pc' = "format"
    /\ UNCHANGED <<cfg, todo, ret, input, log>>

\* variant: the orchestrator goes from formatting straight to the gender stage
PipeFormatSkipsDedup ==
    /\ pc = "format"
    /\ Stage("format_columns", <<>>, format_columns(heap[df1], cfg.column_renames), "gender")
    /\ UNCHANGED todo

PipeFormat ==
    /\ pc = "format"
    /\ Stage("format_columns", <<>>, format_columns(heap[df1], cfg.column_renames), "dedup")
    /\ UNCHANGED todo

PipeDedup ==
    /\ pc = "dedup"
    /\ Stage("remove_duplicate_and_empty_rows", <<>>,
             remove_duplicate_and_empty_rows(heap[df1]), "gender")
    /\ UNCHANGED todo

PipeGender ==
    /\ pc = "gender"
    /\ \E e \in EmptyDtypes :
          Stage("clean_gender_column", <<>>, clean_gender_column(heap[df1], e),
                "complaints")
    /\ UNCHANGED todo

\* the for loop over cols_to_replace.items() starts after this stage
PipeComplaints ==
    /\ pc = "complaints"
    /\ \E e \in EmptyDtypes :
          Stage("clean_number_of_complains_column", <<>>,
                clean_number_of_complains_column(heap[df1], e),
                IF cfg.cols_to_replace = <<>> THEN "reassign" ELSE "replace")
    /\ todo' = cfg.cols_to_replace

\* one turn of the for loop
PipeReplace ==
    /\ pc = "replace"
    /\ Stage("clean_column_by_replacing_string", Head(todo)[1],
             clean_column_by_replacing_string(heap[df1], Head(todo)[1], Head(todo)[2]),
             IF Tail(todo) = <<>> THEN "reassign" ELSE "replace")
    /\ todo' = Tail(todo)

\* df1 = reassign_column_data_type(df1, ...); return df1
PipeReassign ==
    /\ pc = "reassign"
    /\ LET r == reassign_column_data_type(heap[df1], cfg.cols_to_reassign_datatype)
       IN  /\ heap' = [heap EXCEPT ![df1] = r.df]
           /\ IF r.raised THEN pc' = "raised" /\ ret' = 0
                           ELSE pc' = "done" /\ ret' = df1
           /\ log' = Append(log, Entry("reassign_column_data_type", <<>>, df1,
                                       IF r.raised THEN 0 ELSE df1, heap[df1], r.df))
    /\ UNCHANGED <<call, cfg, df1, todo, input>>

Next ==
    \/ CallFormatColumns
    \/ CallRemoveDuplicateAndEmptyRows
    \/ CallCleanGenderColumn
    \/ CallCleanNumberOfComplainsColumn
    \/ CallCleanColumnByReplacingString
    \/ CallReassignColumnDataType
    \/ PipeCopy
    \/ PipeFormat
    \/ PipeDedup
    \/ PipeGender
    \/ PipeComplaints
    \/ PipeReplace
    \/ PipeReassign

Spec == Init /\ [][Next]_vars

SpecFormat == InitFormat /\ [][CallFormatColumns]_vars

SpecGender == InitGender /\ [][CallCleanGenderColumn]_vars

SpecDedup == InitDedup /\ [][CallRemoveDuplicateAndEmptyRows]_vars

SpecReplace == InitReplace /\ [][CallCleanColumnByReplacingString]_vars

(***************************************************************************)
(* Properties.                                                             *)
(***************************************************************************)
Returned(name) == call = name /\ pc = "done"

Out == heap[ret]

Missing(row) == \A j \in 1..Len(row) : row[j].k = "nan"

SomeMissing(row) == \E j \in 1..Len(row) : row[j].k = "nan"

FirstOccurrence(df, i) == \A h \in 1..(i - 1) : df.rows[h] # df.rows[i]

Labels(df) == {df.index[i] : i \in 1..NRows(df)}

\* C1: remove_duplicate_and_empty_rows removes exactly the rows that repeat an
\* earlier row and the rows with no non-missing value; a row with a missing
\* field and a non-missing field is retained.
C1_RemovesOnlyDuplicateAndEmptyRows ==
    Returned("remove_duplicate_and_empty_rows") =>
        \A i \in 1..NRows(input) :
            (input.index[i] \in Labels(Out)) <=>
                (FirstOccurrence(input, i) /\ ~Missing(input.rows[i]))

GenderOf(df) == Column(df, gender)

\* C2: after clean_gender_column every value of the 'gender' column is exactly
\* "M" or "F", the values filled with the mode included.
C2_GenderIsMOrF ==
    Returned("clean_gender_column") =>
        \A i \in 1..NRows(Out) : GenderOf(Out)[i] \in {Str(<<"M">>), Str(<<"F">>)}

\* C3: no function mutates the frame passed in: after the call the caller's
\* frame has the column names, values and dtypes it had before, and the result
\* is another object.
C3_InputNotMutated ==
    pc \in {"done", "raised"} => heap[1] = input /\ (pc = "done" => ret # 1)

Pipeline == call = "clean_and_format_data"

ExpectedStages ==
    <<"format_columns", "remove_duplicate_and_empty_rows", "clean_gender_column",
      "clean_number_of_complains_column">>
    \o [k \in 1..Len(cfg.cols_to_replace) |-> "clean_column_by_replacing_string"]
    \o <<"reassign_column_data_type">>

\* C4: in every run of clean_and_format_data the stages run in the order
\* format, dedup, gender, complaints, one replace per item of cols_to_replace in
\* its iteration order, reassign; each stage gets the previous stage's output,
\* a stage that raises is the last one, and a run that returns ran them all.
C4_StagesInFixedOrder ==
    Pipeline =>
        /\ Len(log) <= Len(ExpectedStages)
        /\ \A k \in 1..Len(log) :
              /\ log[k].stage = ExpectedStages[k]
              /\ log[k].in = (IF k = 1 THEN 2 ELSE log[k - 1].out)
              /\ log[k].in # 0
              /\ log[k].stage = "clean_column_by_replacing_string"
                    => log[k].arg = cfg.cols_to_replace[k - 4][1]
        /\ pc = "done" => Len(log) = Len(ExpectedStages) /\ ret = log[Len(log)].out

C4_Witness ==
    Pipeline /\ pc = "done" /\ Len(cfg.cols_to_replace) = 2 /\ Len(log) = 7

GenderValid(x) == IsStr(x) /\ x.s # <<>> /\ UpperChar(x.s[1]) \in {"M", "F"}

\* v is the mode of col: a non-missing value no other value occurs more often
\* than, and the least of those in str order
IsModeOf(v, col) ==
    /\ v.k # "nan"
    /\ \E i \in 1..Len(col) : col[i] = v
    /\ \A i \in 1..Len(col) :
          col[i].k = "nan" \/ col[i] = v \/ Count(col, col[i]) < Count(col, v)
             \/ (Count(col, col[i]) = Count(col, v) /\ StrLess(v.s, col[i].s))

\* C5: clean_gender_column does not raise when the column has no valid M/F
\* entry, all values missing and zero rows included.
C5_NoRaiseWithoutValidEntry ==
    (call = "clean_gender_column"
        /\ \A i \in 1..NRows(input) : ~GenderValid(GenderOf(input)[i]))
    => pc # "raised"

\* C6: the fill value of clean_gender_column is the mode of the 'gender' column
\* as it was before the step: every invalid entry gets that one value, whatever
\* was computed for the rows before it.
C6_FillIsModeOfOriginalColumn ==
    Returned("clean_gender_column") =>
        \A i \in 1..NRows(input) :
            IF GenderValid(GenderOf(input)[i])
            THEN GenderOf(Out)[i] = Str(<<UpperChar(GenderOf(input)[i].s[1])>>)
            ELSE IsModeOf(GenderOf(Out)[i], GenderOf(input))

C6_Witness ==
    /\ Returned("clean_gender_column")
    /\ \E i, j, h \in 1..NRows(input) :
          /\ i < j /\ j < h
          /\ GenderValid(GenderOf(input)[i])
          /\ GenderOf(input)[i] # GenderOf(Out)[i]
          /\ ~GenderValid(GenderOf(input)[j])
          /\ ~GenderValid(GenderOf(input)[h])
          /\ GenderOf(input)[h].k = "nan"
          /\ GenderOf(Out)[j] = GenderOf(Out)[h]

\* the formatted form of a label: lower-cased, each space an underscore
Fold(name) ==
    [i \in 1..Len(name) |-> IF name[i] = " " THEN "_" ELSE LowerChar(name[i])]

LowerNoSpace(name) ==
    \A i \in 1..Len(name) : name[i] # " " /\ IndexIn(Uppers, name[i]) = 0

Matches(name) == \E m \in 1..Len(cfg.column_renames) : cfg.column_renames[m][1] = Fold(name)

NamesFollowMapping(before, after) ==
    /\ Len(after) = Len(before)
    /\ \A j \in 1..Len(before) :
          \/ \E m \in 1..Len(cfg.column_renames) :
                /\ cfg.column_renames[m][1] = Fold(before[j])
                /\ after[j] = cfg.column_renames[m][2]
          \/ ~Matches(before[j]) /\ after[j] = Fold(before[j])

\* C7 as stated: every output label of format_columns is lower-case without
\* spaces, a label whose formatted form is a key of the mapping is replaced by
\* the mapped value, the others keep the formatted form, positions are kept,
\* and no key raises.
C7_OutputNamesLowerCase ==
    call = "format_columns" =>
        /\ pc = "done"
        /\ NamesFollowMapping(input.columns, Out.columns)
        /\ \A j \in 1..NCols(Out) : LowerNoSpace(Out.columns[j])

\* C7 amended: a label whose formatted form is a key of the mapping becomes
\* the mapped value as written in the mapping; every other label becomes its
\* formatted form, lower-case and without spaces; positions and data are kept
\* and no key raises.
C7_NamesFormattedThenRenamed ==
    call = "format_columns" =>
        /\ pc = "done"
        /\ NamesFollowMapping(input.columns, Out.columns)
        /\ \A j \in 1..NCols(Out) :
              ~Matches(input.columns[j]) => LowerNoSpace(Out.columns[j])
        /\ Out.rows = input.rows /\ Out.index = input.index /\ Out.dtypes = input.dtypes

C7_Witness ==
    /\ Returned("format_columns")
    /\ \E i, j \in 1..NCols(input) :
          /\ Matches(input.columns[i]) /\ ~LowerNoSpace(Out.columns[i])
          /\ ~Matches(input.columns[j]) /\ Out.columns[j] # input.columns[j]

Formatted == Len(log) >= 1 /\ log[1].out # 0

FormatOut == heap[log[1].out]

RenameValuesFresh ==
    /\ \A m, n \in 1..Len(cfg.column_renames) :
          m # n => cfg.column_renames[m][2] # cfg.column_renames[n][2]
    /\ \A m \in 1..Len(cfg.column_renames) : \A j \in 1..NCols(input) :
          cfg.column_renames[m][2] # Fold(input.columns[j])

FoldedDistinct(names) ==
    \A i, j \in 1..Len(names) : i # j => Fold(names[i]) # Fold(names[j])

\* C8 as stated: pairwise distinct input labels give pairwise distinct labels
\* after format_columns and after every later stage of clean_and_format_data.
C8_NamesStayUnique ==
    (Pipeline /\ Distinct(input.columns)) =>
        \A k \in 1..Len(log) : log[k].out # 0 => Distinct(heap[log[k].out].columns)

\* C8 amended: format_columns keeps the number of columns; its output labels
\* are pairwise distinct when the input labels are still pairwise distinct once
\* lower-cased with spaces as underscores and the mapping's values are pairwise
\* distinct and differ from every formatted label; every later stage leaves the
\* labels as format_columns returned them.
C8_NamesUniqueWhenFormattedDistinct ==
    (Pipeline /\ Formatted) =>
        /\ NCols(FormatOut) = NCols(input)
        /\ (FoldedDistinct(input.columns) /\ RenameValuesFresh)
              => Distinct(FormatOut.columns)
        /\ \A k \in 1..Len(log) :
              log[k].out # 0 => heap[log[k].out].columns = FormatOut.columns

C8_Witness ==
    /\ Pipeline /\ pc = "done"
    /\ FoldedDistinct(input.columns) /\ RenameValuesFresh
    /\ \E j \in 1..NCols(input) : Matches(input.columns[j])
    /\ \E j \in 1..NCols(input) : input.columns[j] # Fold(input.columns[j])
    /\ Len(cfg.cols_to_replace) >= 1

Position(seq, x) == CHOOSE i \in 1..Len(seq) : seq[i] = x

\* a is b with some elements left out, b without repeats
IsSubsequence(a, b) ==
    /\ \A i \in 1..Len(a) : \E h \in 1..Len(b) : b[h] = a[i]
    /\ \A i, j \in 1..Len(a) : i < j => Position(b, a[i]) < Position(b, a[j])

\* C9: in a run of clean_and_format_data only the deduplication stage returns
\* fewer rows than it got, no stage returns more, and every stage keeps the
\* rows it keeps in their order: the final rows are a subsequence of the input.
C9_RowsOnlyDroppedByDedup ==
    Pipeline =>
        /\ \A k \in 1..Len(log) :
              /\ IsSubsequence(log[k].index_out, log[k].index_in)
              /\ log[k].stage # "remove_duplicate_and_empty_rows"
                    => log[k].index_out = log[k].index_in
        /\ Formatted => log[1].index_in = input.index
        /\ pc = "done" => IsSubsequence(Out.index, input.index)

C9_Witness ==
    Pipeline /\ pc = "done" /\ NRows(input) = 3 /\ Out.index = <<0, 2>>

\* Python's str.replace told by positions: the match at the leftmost position
\* is replaced and the scan goes on behind it
RECURSIVE LiteralFrom(_, _, _, _)
LiteralFrom(s, i, old, new) ==
    IF i > Len(s) THEN (IF old = <<>> THEN new ELSE <<>>)
    ELSE IF old = <<>> THEN new \o <<s[i]>> \o LiteralFrom(s, i + 1, old, new)
    ELSE IF i + Len(old) - 1 <= Len(s) /\ SubSeq(s, i, i + Len(old) - 1) = old
    THEN new \o LiteralFrom(s, i + Len(old), old, new)
    ELSE <<s[i]>> \o LiteralFrom(s, i + 1, old, new)

\* the text after the first n pairs
RECURSIVE AfterPairs(_, _, _)
AfterPairs(s, pairs, n) ==
    IF n = 0 THEN s
    ELSE LiteralFrom(AfterPairs(s, pairs, n - 1), 1, pairs[n][1], pairs[n][2])

ReplacedColumn == cfg.cols_to_replace[1][1]

ReplacedPairs == cfg.cols_to_replace[1][2]

\* C10: clean_column_by_replacing_string applies the pairs in list order as
\* literal replacements to every text value of the column, each pair on the
\* values the earlier pairs left; ["abc123", "xyz"] with [["123", ""], ["a",
\* "A"]] gives ["Abc", "xyz"]; missing values and the other columns are kept.
C10_PairsAppliedInOrder ==
    call = "clean_column_by_replacing_string" =>
        /\ pc = "done"
        /\ Out.columns = input.columns /\ Out.index = input.index
        /\ \A i \in 1..NRows(input) :
              /\ Column(Out, <<"d">>)[i] = Column(input, <<"d">>)[i]
              /\ LET x == Column(input, ReplacedColumn)[i]
                     y == Column(Out, ReplacedColumn)[i]
                 IN  IF IsStr(x)
                     THEN y = Str(AfterPairs(x.s, ReplacedPairs, Len(ReplacedPairs)))
                     ELSE y = x
        /\ (/\ ReplacedPairs = <<<<<<"1","2","3">>, <<>>>>, <<<<"a">>, <<"A">>>>>>
            /\ Column(input, ReplacedColumn)
                  = <<Str(<<"a","b","c","1","2","3">>), Str(<<"x","y","z">>)>>)
           => Column(Out, ReplacedColumn) = <<Str(<<"A","b","c">>), Str(<<"x","y","z">>)>>

C10_Witness ==
    /\ Returned("clean_column_by_replacing_string")
    /\ ReplacedPairs = <<<<<<"a">>, <<"A">>>>, <<<<"A">>, <<"b">>>>>>
    /\ Column(input, ReplacedColumn)
          = <<Str(<<"a","b","c","1","2","3">>), Str(<<"x","y","z">>)>>
    /\ Column(Out, ReplacedColumn)
          = <<Str(<<"b","b","c","1","2","3">>), Str(<<"x","y","z">>)>>

=============================================================================
